---- MODULE Spec2Model ----
(***************************************************************************)
(* Model of main.py: the blog agent pipeline behind GET /run-agent.        *)
(*                                                                         *)
(* A Python str is a sequence of one-character strings; a message (the     *)
(* str() of an exception) is a sequence of parts, so that f"prefix: {e}"   *)
(* is concatenation and "contains" can be checked.  The Markdown report is *)
(* a sequence of tokens (a "---" delimiter, a "key: value" line, a line of *)
(* an "author:" block, body text, blank space).                            *)
(***************************************************************************)
EXTENDS Integers, Sequences, FiniteSets, TLC

VARIABLES
    pc,            \* where each worker's /run-agent request stands
    loc,           \* the locals of run_agent and git_push_callback, per worker
    hist,          \* history: the steps the worker's current run has completed
    response,      \* the HTTP response of each worker's request
    report_file,   \* /tmp/report.md, shared by all workers of the host
    posts,         \* remote repository: outstatic/content/blogs/*.md, path -> content
    index_file,    \* remote repository: outstatic/content/metadata.json
    runs           \* number of /run-agent requests accepted so far

vars == <<pc, loc, hist, response, report_file, posts, index_file, runs>>

(***************************************************************************)
(* Bounds of the model.                                                    *)
(***************************************************************************)
MaxRuns == 2        \* /run-agent requests per behaviour
MaxLen == 2         \* length of the topic / year strings tried on research_topic
MaxDocLen == 3      \* tokens of the report contents tried on the Publisher
MaxElapsed == 1     \* time.time() - start_time, in ticks

Workers == {"w1", "w2"}

(***************************************************************************)
(* Python str helpers.                                                     *)
(***************************************************************************)
Chars == {" ", "a", "7"}
Digits == {"0", "1", "2", "3", "4", "5", "6", "7", "8", "9"}
Whitespace == {" "}

StringsUpTo(n) == UNION {[1..k -> Chars] : k \in 0..n}

RECURSIVE LStrip(_)
LStrip(s) == IF s # <<>> /\ Head(s) \in Whitespace THEN LStrip(Tail(s)) ELSE s

RECURSIVE RStrip(_)
RStrip(s) ==
    IF s # <<>> /\ s[Len(s)] \in Whitespace THEN RStrip(SubSeq(s, 1, Len(s) - 1)) ELSE s

\* str.strip()
StrStrip(s) == RStrip(LStrip(s))

\* str.isdigit(): non-empty and every character a digit
IsDigit(s) == s # <<>> /\ \A i \in 1..Len(s) : s[i] \in Digits

(***************************************************************************)
(* Exceptions and results of the stage functions.                          *)
(***************************************************************************)
NoExc == [type |-> "", msg |-> <<>>, cause |-> <<>>]
Exc(type, msg) == [type |-> type, msg |-> msg, cause |-> <<>>]

\* except Exception as e: raise RuntimeError(f"{prefix}{str(e)}")
Wrap(prefix, e) == [type |-> "RuntimeError", msg |-> <<prefix>> \o e.msg, cause |-> e.msg]

\* called: whether the external call of the stage was issued
Return(v, called) == [exc |-> NoExc, value |-> v, called |-> called]
Raise(e, called) == [exc |-> e, value |-> <<>>, called |-> called]

\* What a chat completion can do: throw, or answer with some text.
ApiErrors == {<<"503 Service Unavailable">>}
RawTexts == {<<>>, <<" ">>, <<"a">>, <<" ", "a", " ">>}
Threw(m) == [threw |-> TRUE, msg |-> m, text |-> <<>>]
Answered(t) == [threw |-> FALSE, msg |-> <<>>, text |-> t]
LlmOutcomes == {Threw(m) : m \in ApiErrors} \cup {Answered(t) : t \in RawTexts}

\* research_topic without its second input check.
ResearchNoYearCheck(topic, current_year, llm) ==
    IF topic = <<>> \/ StrStrip(topic) = <<>>
    THEN Raise(Exc("ValueError", <<"Topic cannot be empty">>), FALSE)
    ELSE IF llm.threw THEN Raise(Wrap("Research failed: ", Exc("APIError", llm.msg)), TRUE)
    ELSE IF StrStrip(llm.text) = <<>>
         THEN Raise(Wrap("Research failed: ", Exc("ValueError", <<"Empty OpenAI response">>)), TRUE)
    ELSE Return(StrStrip(llm.text), TRUE)

\* Input checks, then the try block every text stage has: call, strip, reject
\* empty text, and wrap whatever was raised.
research_topic(topic, current_year, llm) ==
    IF topic = <<>> \/ StrStrip(topic) = <<>>
    THEN Raise(Exc("ValueError", <<"Topic cannot be empty">>), FALSE)
    ELSE IF ~IsDigit(current_year)
    THEN Raise(Exc("ValueError", <<"Current year must be a number">>), FALSE)
    ELSE IF llm.threw THEN Raise(Wrap("Research failed: ", Exc("APIError", llm.msg)), TRUE)
    ELSE IF StrStrip(llm.text) = <<>>
         THEN Raise(Wrap("Research failed: ", Exc("ValueError", <<"Empty OpenAI response">>)), TRUE)
    ELSE Return(StrStrip(llm.text), TRUE)

\* select_category_and_title: the category only enters the prompt.
categories ==
    {"AI", "Web3", "Blockchain Fusion", "Startups", "Tech Culture",
     "Tools & Reviews", "How-Tos", "Editorials", "AGI"}

select_category_and_title(llm) ==
    IF llm.threw THEN Raise(Wrap("Title generation failed: ", Exc("APIError", llm.msg)), TRUE)
    ELSE IF StrStrip(llm.text) = <<>>
         THEN Raise(Wrap("Title generation failed: ", Exc("ValueError", <<"Empty title response">>)), TRUE)
    ELSE Return(StrStrip(llm.text), TRUE)

ImagePromptNoEmptyCheck(llm) ==
    IF llm.threw
    THEN Raise(Wrap("Image prompt generation failed: ", Exc("APIError", llm.msg)), TRUE)
    ELSE Return(StrStrip(llm.text), TRUE)

generate_image_prompt(llm) ==
    IF llm.threw
    THEN Raise(Wrap("Image prompt generation failed: ", Exc("APIError", llm.msg)), TRUE)
    ELSE IF StrStrip(llm.text) = <<>>
         THEN Raise(Wrap("Image prompt generation failed: ",
                         Exc("ValueError", <<"Empty image prompt response">>)), TRUE)
    ELSE Return(StrStrip(llm.text), TRUE)

(***************************************************************************)
(* Image Producer.                                                         *)
(***************************************************************************)
placeholder_url == <<"https://example.com/placeholder.jpg">>
GeneratedUrl == <<"https://images.provider/generated.png">>

\* title.lower().replace(' ', '-')
LowerChar(c) == IF c = "A" THEN "a" ELSE c
BlobKey(title) ==
    [i \in 1..Len(title) |-> IF LowerChar(title[i]) = " " THEN "-" ELSE LowerChar(title[i])]
blob_filename(title) == <<"images/">> \o BlobKey(title) \o <<".png">>
\* the URL the storage service answers for a key
BlobUrl(key) == <<"https://blob.store/">> \o key

\* gen, dl, up: whether images.generate, requests.get + raise_for_status, and put
\* (with a 'url' in its answer) succeed
ImageLeaksGeneratedUrl(title, gen, dl, up) ==
    IF gen /\ dl /\ up THEN Return(BlobUrl(blob_filename(title)), TRUE)
    ELSE IF gen /\ dl THEN Return(GeneratedUrl, TRUE)
    ELSE Return(placeholder_url, TRUE)

generate_and_upload_image(title, gen, dl, up) ==
    IF ~gen THEN Return(placeholder_url, TRUE)
    ELSE IF ~dl THEN Return(placeholder_url, TRUE)
    ELSE IF ~up THEN Return(placeholder_url, TRUE)
    ELSE Return(BlobUrl(blob_filename(title)), TRUE)

(***************************************************************************)
(* Markdown documents.                                                     *)
(***************************************************************************)
Delim == [t |-> "---", k |-> "", v |-> ""]
KV(k, v) == [t |-> "kv", k |-> k, v |-> v]
AuthorKV(k, v) == [t |-> "author", k |-> k, v |-> v]   \* an indented line under "author:"
Text == [t |-> "text", k |-> "", v |-> "body"]
Blank == [t |-> "blank", k |-> "", v |-> ""]

RECURSIVE DocLStrip(_)
DocLStrip(d) == IF d # <<>> /\ Head(d) = Blank THEN DocLStrip(Tail(d)) ELSE d

RECURSIVE DocRStrip(_)
DocRStrip(d) ==
    IF d # <<>> /\ d[Len(d)] = Blank THEN DocRStrip(SubSeq(d, 1, Len(d) - 1)) ELSE d

\* str.strip() on a document
DocStrip(d) == DocRStrip(DocLStrip(d))

\* The post answers tried in the pipeline.
WellFormedPost ==
    <<Delim, KV("slug", "my-post"), KV("title", "Hello"), AuthorKV("name", "Abdullah Sajid"),
      Delim, Text>>
PostAnswers ==
    { <<>>, <<Blank>>,
      WellFormedPost,
      <<Delim, KV("title", "Hello"), Delim, Text>>,
      <<Text>>,
      <<Delim, KV("slug", "my-post")>> }
PostOutcomes == {Threw(m) : m \in ApiErrors} \cup {Answered(t) : t \in PostAnswers}

write_blog_post(llm) ==
    IF llm.threw THEN Raise(Wrap("Blog post failed: ", Exc("APIError", llm.msg)), TRUE)
    ELSE IF DocStrip(llm.text) = <<>>
         THEN Raise(Wrap("Blog post failed: ", Exc("ValueError", <<"Empty OpenAI response">>)), TRUE)
    ELSE Return(DocStrip(llm.text), TRUE)

(***************************************************************************)
(* Publisher: the frontmatter.                                             *)
(***************************************************************************)
EmptyMap == <<>>      \* {}
Get(m, k, default) == IF k \in DOMAIN m THEN m[k] ELSE default
Put(m, k, v) == [x \in DOMAIN m \cup {k} |-> IF x = k THEN v ELSE m[x]]
Remove(m, ks) == [x \in DOMAIN m \ ks |-> m[x]]

\* content.index('---', 3): the first delimiter after the opening one, 0 if none
RECURSIVE IndexOfDelim(_, _)
IndexOfDelim(d, from) ==
    IF from > Len(d) THEN 0
    ELSE IF d[from] = Delim THEN from
    ELSE IndexOfDelim(d, from + 1)

\* The mapping a block of "key: value" lines loads to; a later key replaces an
\* earlier one.  The nested mapping under "author:" is kept flat, as the keys
\* "author.name" and "author.picture"; the key "author" itself is present only
\* when the block gives author a scalar value.
RECURSIVE YamlMap(_, _)
YamlMap(fm, acc) ==
    IF fm = <<>> THEN acc
    ELSE LET l == Head(fm) IN
         IF l.t = "kv" /\ l.k = "author"
         THEN YamlMap(Tail(fm), Put(Remove(acc, {"author.name", "author.picture"}), "author", l.v))
         ELSE IF l.t = "kv" THEN YamlMap(Tail(fm), Put(acc, l.k, l.v))
         ELSE IF l.t = "author"
         THEN YamlMap(Tail(fm), Put(Remove(acc, {"author"}), "author." \o l.k, l.v))
         ELSE YamlMap(Tail(fm), acc)

\* yaml.safe_load(frontmatter) or {} followed by the first metadata.get:
\* a block that is only text loads to a str (no .get), text among the keys is
\* a YAML error, an empty block loads to None.
ParseFrontmatter(content) ==
    IF content = <<>> \/ Head(content) # Delim
    THEN [exc |-> NoExc, metadata |-> EmptyMap]
    ELSE LET end == IndexOfDelim(content, 2) IN
         IF end = 0
         THEN [exc |-> Exc("ValueError", <<"substring not found">>), metadata |-> EmptyMap]
         ELSE LET fm == DocStrip(SubSeq(content, 2, end - 1))
                  texts == {i \in 1..Len(fm) : fm[i].t = "text"}
              IN IF texts = {} THEN [exc |-> NoExc, metadata |-> YamlMap(fm, EmptyMap)]
                 ELSE IF Len(fm) = 1
                 THEN [exc |-> Exc("AttributeError", <<"'str' object has no attribute 'get'">>),
                       metadata |-> EmptyMap]
                 ELSE [exc |-> Exc("YAMLError", <<"could not find expected ':'">>),
                       metadata |-> EmptyMap]

SlugDefaultUntitled(metadata) == Get(metadata, "slug", "untitled")

\* metadata.get('slug', 'default-slug')
Slug(metadata) == Get(metadata, "slug", "default-slug")

\* f"outstatic/content/blogs/{slug}.md"
PostPath(slug) == "outstatic/content/blogs/" \o slug \o ".md"

\* metadata.get('author', {}) is a mapping (else .get raises AttributeError)
AuthorIsMap(metadata) == "author" \notin DOMAIN metadata

new_entry(metadata, slug) ==
    [ category    |-> Get(metadata, "category", "Uncategorized"),
      collection  |-> "blogs",
      coverImage  |-> Get(metadata, "coverImage", ""),
      description |-> Get(metadata, "description", ""),
      publishedAt |-> Get(metadata, "publishedAt", ""),
      slug        |-> slug,
      status      |-> Get(metadata, "status", "draft"),
      title       |-> Get(metadata, "title", "Untitled"),
      path        |-> PostPath(slug),
      author      |-> [ name    |-> Get(metadata, "author.name", ""),
                        picture |-> Get(metadata, "author.picture", "") ],
      __outstatic |-> [ path |-> PostPath(slug) ] ]

(***************************************************************************)
(* The remote repository (the hosting API's contents endpoints) and the    *)
(* local report file.                                                      *)
(***************************************************************************)
ApiOk == <<>>                       \* the request reached the API and was served
ApiResults == {ApiOk} \cup ApiErrors
AlreadyExists == <<"422 Invalid request: \"sha\" wasn't supplied">>
ShaMismatch == <<"409 does not match">>
NotFound == <<"404 Not Found">>

\* create_file: PUT contents without a sha, refused when the path holds a file
CreateFileOverwrites(files, path, content, api) ==
    IF api # ApiOk THEN [exc |-> Exc("GithubException", api), files |-> files]
    ELSE [exc |-> NoExc, files |-> Put(files, path, content)]

create_file(files, path, content, api) ==
    IF api # ApiOk THEN [exc |-> Exc("GithubException", api), files |-> files]
    ELSE IF path \in DOMAIN files
    THEN [exc |-> Exc("GithubException", AlreadyExists), files |-> files]
    ELSE [exc |-> NoExc, files |-> Put(files, path, content)]

\* metadata.json: decodes says whether line 205 (decoded_content, decode,
\* json.loads) succeeds on the file as the contents API returns it
NoIndex == [exists |-> FALSE, decodes |-> TRUE, metadata |-> <<>>]
IndexOf(list, decodes) == [exists |-> TRUE, decodes |-> decodes, metadata |-> list]

\* the revision marker (blob sha) of a file: a hash of what it holds
Sha(file) == <<file.decodes, file.metadata>>

\* json.dumps(metadata_json, indent=2) as the new content of the file
JsonDumps(metadata_json) == IndexOf(metadata_json, TRUE)

\* lines 202-207: bound is 'metadata_file' in locals(), loaded is whether
\* json.loads replaced the default of line 202
fetch_metadata(file, api) ==
    IF api # ApiOk \/ ~file.exists
    THEN [bound |-> FALSE, sha |-> <<>>, metadata_json |-> <<>>, loaded |-> FALSE]
    ELSE IF ~file.decodes
    THEN [bound |-> TRUE, sha |-> Sha(file), metadata_json |-> <<>>, loaded |-> FALSE]
    ELSE [bound |-> TRUE, sha |-> Sha(file), metadata_json |-> file.metadata, loaded |-> TRUE]

\* update_file: PUT contents with the sha read before
update_file(file, content, sha, api) ==
    IF api # ApiOk THEN [exc |-> Exc("GithubException", api), file |-> file]
    ELSE IF ~file.exists THEN [exc |-> Exc("GithubException", NotFound), file |-> file]
    ELSE IF Sha(file) # sha THEN [exc |-> Exc("GithubException", ShaMismatch), file |-> file]
    ELSE [exc |-> NoExc, file |-> content]

\* create_file on metadata.json
create_metadata(file, content, api) ==
    IF api # ApiOk THEN [exc |-> Exc("GithubException", api), file |-> file]
    ELSE IF file.exists THEN [exc |-> Exc("GithubException", AlreadyExists), file |-> file]
    ELSE [exc |-> NoExc, file |-> content]

\* lines 229-245: the branch taken and what it does
write_metadata(file, bound, sha, metadata_json, api) ==
    LET r == IF bound THEN update_file(file, JsonDumps(metadata_json), sha, api)
             ELSE create_metadata(file, JsonDumps(metadata_json), api)
    IN [branch |-> IF bound THEN "update" ELSE "create",
        exc |-> IF r.exc = NoExc THEN NoExc ELSE Wrap("Metadata update failed: ", r.exc),
        file |-> r.file]

\* /tmp/report.md
NoReport == [exists |-> FALSE, content |-> <<>>, writer |-> 0]

WriteReportKeepsOld(file, blog_content, run) ==
    IF file.exists THEN file ELSE [exists |-> TRUE, content |-> blog_content, writer |-> run]

\* open(report_file, 'w'); f.write(blog_content): writer is the run that wrote it
WriteReport(file, blog_content, run) ==
    [exists |-> TRUE, content |-> blog_content, writer |-> run]

(***************************************************************************)
(* The HTTP layer.                                                         *)
(***************************************************************************)
NoResponse == [status |-> 0, body |-> [pending |-> TRUE]]

ExceptHidesDetail(e) == [status |-> 500, body |-> [detail |-> <<"Internal Server Error">>]]

\* except Exception as e: raise HTTPException(status_code=500, detail=str(e)),
\* which passes through trigger_event and is answered by the framework
run_agent_except(e) == [status |-> 500, body |-> [detail |-> e.msg]]

\* trigger_event: run_agent() is called for its effects and its return value dropped
trigger_event(retval) ==
    [status |-> 200, body |-> [message |-> "Agent is running in the background"]]

(***************************************************************************)
(* State of a request.                                                     *)
(***************************************************************************)
DigitSeq == <<"0", "1", "2", "3", "4", "5", "6", "7", "8", "9">>

\* str(n) of a natural number
RECURSIVE IntToStr(_)
IntToStr(n) ==
    IF n < 10 THEN <<DigitSeq[n + 1]>>
    ELSE IntToStr(n \div 10) \o <<DigitSeq[(n % 10) + 1]>>

\* datetime.now().year
Years == {2026}

\* locals of run_agent (title .. blog_content) and of git_push_callback
\* (content .. metadata_json); run, overlapped, image, content_writer, created,
\* loaded, branch, wrote and exc are history
FreshLocals(run, overlapped) ==
    [ run |-> run, overlapped |-> overlapped,
      title |-> <<>>, topic |-> <<>>, current_year |-> <<>>,
      research_output |-> <<>>, image_prompt |-> <<>>, cover_image_url |-> <<>>,
      image |-> "", blog_content |-> <<>>,
      content |-> <<>>, content_writer |-> 0, metadata |-> EmptyMap, slug |-> "",
      created |-> FALSE,
      bound |-> FALSE, sha |-> <<>>, metadata_json |-> <<>>, loaded |-> FALSE,
      branch |-> "", wrote |-> FALSE,
      exc |-> NoExc ]

\* run_agent has returned or raised: its locals are gone, the history stays
Returned(l) ==
    [ FreshLocals(l.run, l.overlapped) EXCEPT
        !.content_writer = l.content_writer, !.created = l.created,
        !.bound = l.bound, !.loaded = l.loaded, !.branch = l.branch,
        !.wrote = l.wrote, !.exc = l.exc ]

Active(w) == pc[w] \notin {"idle", "done"}

Called(w, call) == hist' = [hist EXCEPT ![w] = Append(@, call)]

\* an exception reaches the except clause of run_agent; l: the locals then
Abort(w, l, e) ==
    /\ pc' = [pc EXCEPT ![w] = "done"]
    /\ loc' = [loc EXCEPT ![w] = Returned([l EXCEPT !.exc = e])]
    /\ response' = [response EXCEPT ![w] = run_agent_except(e)]

\* the run goes on to its next step with locals l
Goto(w, l, next) ==
    /\ pc' = [pc EXCEPT ![w] = next]
    /\ loc' = [loc EXCEPT ![w] = l]
    /\ UNCHANGED response

(***************************************************************************)
(* GET /run-agent arrives at worker w.                                     *)
(***************************************************************************)
Trigger(w) ==
    /\ pc[w] \in {"idle", "done"}
    /\ runs < MaxRuns
    /\ runs' = runs + 1
    /\ pc' = [pc EXCEPT ![w] = "select_title"]
    /\ loc' = [v \in Workers |->
                 IF v = w THEN FreshLocals(runs + 1, \E u \in Workers \ {w} : Active(u))
                 ELSE IF Active(v) THEN [loc[v] EXCEPT !.overlapped = TRUE]
                 ELSE loc[v]]
    /\ hist' = [hist EXCEPT ![w] = <<>>]
    /\ response' = [response EXCEPT ![w] = NoResponse]
    /\ UNCHANGED <<report_file, posts, index_file>>

\* lines 298-312
SelectTitle(w) ==
    /\ pc[w] = "select_title"
    /\ \E selected_category \in categories : TRUE     \* random.choice; only the prompt reads it
    /\ \E llm \in LlmOutcomes, year \in Years :
         LET r == select_category_and_title(llm) IN
         /\ Called(w, "title")
         /\ IF r.exc = NoExc
            THEN Goto(w, [loc[w] EXCEPT !.title = r.value,
                                        !.topic = StrStrip(r.value),
                                        !.current_year = IntToStr(year)], "research")
            ELSE Abort(w, loc[w], r.exc)
    /\ UNCHANGED <<report_file, posts, index_file, runs>>

\* lines 314-315
Research(w) ==
    /\ pc[w] = "research"
    /\ \E llm \in LlmOutcomes :
         LET r == research_topic(loc[w].topic, loc[w].current_year, llm) IN
         /\ IF r.called THEN Called(w, "research") ELSE UNCHANGED hist
         /\ IF r.exc = NoExc
            THEN Goto(w, [loc[w] EXCEPT !.research_output = r.value], "image_prompt")
            ELSE Abort(w, loc[w], r.exc)
    /\ UNCHANGED <<report_file, posts, index_file, runs>>

\* lines 317-318
ImagePrompt(w) ==
    /\ pc[w] = "image_prompt"
    /\ \E llm \in LlmOutcomes :
         LET r == generate_image_prompt(llm) IN
         /\ Called(w, "image_prompt")
         /\ IF r.exc = NoExc
            THEN Goto(w, [loc[w] EXCEPT !.image_prompt = r.value], "image")
            ELSE Abort(w, loc[w], r.exc)
    /\ UNCHANGED <<report_file, posts, index_file, runs>>

\* line 319
Image(w) ==
    /\ pc[w] = "image"
    /\ \E gen \in BOOLEAN, dl \in BOOLEAN, up \in BOOLEAN :
         LET r == generate_and_upload_image(loc[w].title, gen, dl, up) IN
         /\ Called(w, "image")
         /\ IF r.exc = NoExc
            THEN Goto(w, [loc[w] EXCEPT !.cover_image_url = r.value,
                                        !.image = IF ~gen THEN "generate failed"
                                                  ELSE IF ~dl THEN "download failed"
                                                  ELSE IF ~up THEN "upload failed"
                                                  ELSE "uploaded"], "write_post")
            ELSE Abort(w, loc[w], r.exc)
    /\ UNCHANGED <<report_file, posts, index_file, runs>>

\* lines 321-324; cover_image_url is not read after line 323, so the model
\* drops it (and the history of the image stage) here
WritePost(w) ==
    /\ pc[w] = "write_post"
    /\ \E llm \in PostOutcomes :
         LET r == write_blog_post(llm) IN
         /\ Called(w, "post")
         /\ IF r.exc = NoExc
            THEN Goto(w, [loc[w] EXCEPT !.blog_content = r.value,
                                        !.cover_image_url = <<>>, !.image = ""], "write_file")
            ELSE Abort(w, loc[w], r.exc)
    /\ UNCHANGED <<report_file, posts, index_file, runs>>

\* lines 326-329: open may fail (disk full, permissions)
WriteFile(w) ==
    /\ pc[w] = "write_file"
    /\ \E ok \in BOOLEAN :
         IF ok
         THEN /\ report_file' = WriteReport(report_file, loc[w].blog_content, loc[w].run)
              /\ Called(w, "file_write")
              /\ Goto(w, loc[w], "publisher")
         ELSE /\ Abort(w, loc[w], Exc("OSError", <<"[Errno 28] No space left on device">>))
              /\ UNCHANGED <<report_file, hist>>
    /\ UNCHANGED <<posts, index_file, runs>>

(***************************************************************************)
(* git_push_callback, one action per request to the outside.               *)
(***************************************************************************)
\* lines 20-23 end the process at start-up when GIT_TOKEN is not set
GitTokenSet == TRUE

\* lines 166-190: what reading and parsing the report raises, if anything
ReadReport(file, repo) ==
    IF ~GitTokenSet THEN Exc("ValueError", <<"GIT_TOKEN not set">>)
    ELSE IF repo # ApiOk THEN Exc("GithubException", repo)
    ELSE IF ~file.exists THEN Exc("FileNotFoundError", <<"Report file missing">>)
    ELSE ParseFrontmatter(DocStrip(file.content)).exc

PublisherRead(w) ==
    /\ pc[w] = "publisher"
    /\ \E repo \in ApiResults :
         LET e == ReadReport(report_file, repo)
             content == DocStrip(report_file.content)
             metadata == ParseFrontmatter(content).metadata
         IN IF e = NoExc
            THEN /\ Called(w, "file_read")
                 /\ Goto(w, [loc[w] EXCEPT !.content = content,
                                           !.content_writer = report_file.writer,
                                           !.metadata = metadata,
                                           !.slug = Slug(metadata)], "create_post")
            ELSE /\ Abort(w, loc[w], e)
                 /\ UNCHANGED hist
    /\ UNCHANGED <<report_file, posts, index_file, runs>>

\* lines 192-200
CreatePost(w) ==
    /\ pc[w] = "create_post"
    /\ \E api \in ApiResults :
         LET r == create_file(posts, PostPath(loc[w].slug), loc[w].content, api) IN
         /\ Called(w, "create_post")
         /\ posts' = r.files
         /\ IF r.exc = NoExc
            THEN Goto(w, [loc[w] EXCEPT !.created = TRUE], "fetch_index")
            ELSE Abort(w, loc[w], Wrap("Push failed: ", r.exc))
    /\ UNCHANGED <<report_file, index_file, runs>>

\* lines 202-207
FetchIndex(w) ==
    /\ pc[w] = "fetch_index"
    /\ \E api \in ApiResults :
         LET r == fetch_metadata(index_file, api) IN
         /\ Called(w, "fetch_index")
         /\ Goto(w, [loc[w] EXCEPT !.bound = r.bound, !.sha = r.sha,
                                   !.metadata_json = r.metadata_json,
                                   !.loaded = r.loaded], "write_index")
    /\ UNCHANGED <<report_file, posts, index_file, runs>>

\* lines 209-248, then 332-334 and the return of trigger_event
WriteIndex(w) ==
    /\ pc[w] = "write_index"
    /\ IF ~AuthorIsMap(loc[w].metadata)
       THEN /\ Abort(w, loc[w], Exc("AttributeError", <<"'str' object has no attribute 'get'">>))
            /\ UNCHANGED <<hist, index_file>>
       ELSE \E api \in ApiResults, total_time \in 0..MaxElapsed :
            LET appended == Append(loc[w].metadata_json,
                                   new_entry(loc[w].metadata, loc[w].slug))
                r == write_metadata(index_file, loc[w].bound, loc[w].sha, appended, api)
                retval == [result |-> "Successfully pushed blog post",
                           execution_time |-> total_time]
            IN /\ Called(w, "write_index")
               /\ index_file' = r.file
               /\ IF r.exc = NoExc
                  THEN /\ pc' = [pc EXCEPT ![w] = "done"]
                       /\ loc' = [loc EXCEPT ![w] =
                                    Returned([loc[w] EXCEPT !.branch = r.branch, !.wrote = TRUE])]
                       /\ response' = [response EXCEPT ![w] = trigger_event(retval)]
                  ELSE Abort(w, [loc[w] EXCEPT !.branch = r.branch], r.exc)
    /\ UNCHANGED <<report_file, posts, runs>>

(***************************************************************************)
(* The service: requests arrive at the workers, which share /tmp and the   *)
(* remote repository.                                                      *)
(***************************************************************************)
\* an entry written by an earlier deployment of the site
OldEntry == new_entry(YamlMap(<<KV("slug", "my-post"), KV("title", "Old")>>, EmptyMap), "my-post")

InitialIndexes == {NoIndex, IndexOf(<<OldEntry>>, TRUE), IndexOf(<<OldEntry>>, FALSE)}

Init ==
    /\ pc = [w \in Workers |-> "idle"]
    /\ loc = [w \in Workers |-> FreshLocals(0, FALSE)]
    /\ hist = [w \in Workers |-> <<>>]
    /\ response = [w \in Workers |-> NoResponse]
    /\ report_file = NoReport
    /\ posts = EmptyMap
    /\ index_file \in InitialIndexes
    /\ runs = 0

Next ==
    \E w \in Workers :
        \/ Trigger(w)
        \/ SelectTitle(w)
        \/ Research(w)
        \/ ImagePrompt(w)
        \/ Image(w)
        \/ WritePost(w)
        \/ WriteFile(w)
        \/ PublisherRead(w)
        \/ CreatePost(w)
        \/ FetchIndex(w)
        \/ WriteIndex(w)

Spec == Init /\ [][Next]_vars

(***************************************************************************)
(* research_topic on its own, on every topic and year string of the bound. *)
(***************************************************************************)
InitResearch ==
    /\ pc = [w \in Workers |-> IF w = "w1" THEN "research" ELSE "idle"]
    /\ \E topic \in StringsUpTo(MaxLen), current_year \in StringsUpTo(MaxLen) :
         loc = [w \in Workers |->
                  IF w = "w1"
                  THEN [FreshLocals(1, FALSE) EXCEPT !.topic = topic,
                                                     !.current_year = current_year]
                  ELSE FreshLocals(0, FALSE)]
    /\ hist = [w \in Workers |-> <<>>]
    /\ response = [w \in Workers |-> NoResponse]
    /\ report_file = NoReport
    /\ posts = EmptyMap
    /\ index_file = NoIndex
    /\ runs = 1

NextResearch == \E w \in Workers : Research(w)

SpecResearch == InitResearch /\ [][NextResearch]_vars

(***************************************************************************)
(* git_push_callback on its own, on every report content of the bound.     *)
(***************************************************************************)
DocTokens ==
    {Delim, KV("slug", "my-post"), KV("title", "Hello"), KV("author", "Bob"),
     AuthorKV("name", "Abdullah Sajid"), Text, Blank}

DocsUpTo(n) == UNION {[1..k -> DocTokens] : k \in 0..n}

InitPublisher ==
    /\ pc = [w \in Workers |-> IF w = "w1" THEN "publisher" ELSE "idle"]
    /\ loc = [w \in Workers |-> FreshLocals(IF w = "w1" THEN 1 ELSE 0, FALSE)]
    /\ hist = [w \in Workers |-> <<>>]
    /\ response = [w \in Workers |-> NoResponse]
    /\ report_file \in {NoReport} \cup
                       {WriteReport(NoReport, d, 1) : d \in DocsUpTo(MaxDocLen)}
    /\ posts = EmptyMap
    /\ index_file \in InitialIndexes
    /\ runs = 1

NextPublisher ==
    \E w \in Workers :
        \/ PublisherRead(w)
        \/ CreatePost(w)
        \/ FetchIndex(w)
        \/ WriteIndex(w)

SpecPublisher == InitPublisher /\ [][NextPublisher]_vars

(***************************************************************************)
(* Properties.                                                             *)
(***************************************************************************)
Range(q) == {q[i] : i \in 1..Len(q)}
Last(q) == q[Len(q)]
IsPrefix(p, q) == Len(p) <= Len(q) /\ SubSeq(q, 1, Len(p)) = p
Contains(q, part) ==
    \E i \in 1..(Len(q) - Len(part) + 1) : SubSeq(q, i, i + Len(part) - 1) = part

\* the calls of one run, in the order of section 2 of the specification
StageOrder ==
    <<"title", "research", "image_prompt", "image", "post", "file_write",
      "file_read", "create_post", "fetch_index", "write_index">>

\* C1: a run in which every call succeeded is answered 200 with a body that
\* carries result = "Successfully pushed blog post" and a numeric execution_time
SuccessResponseCarriesResult ==
    \A w \in Workers :
        (pc[w] = "done" /\ loc[w].wrote) =>
            /\ response[w].status = 200
            /\ "result" \in DOMAIN response[w].body
            /\ "execution_time" \in DOMAIN response[w].body
            /\ response[w].body.result = "Successfully pushed blog post"
            /\ response[w].body.execution_time \in Nat

\* C2: a run that ends in a failure is answered 500 with the failure's string
\* form as detail; when create_file threw M, detail is "Push failed: " then M
FatalFailureAnswers500 ==
    \A w \in Workers :
        /\ (pc[w] = "done" /\ ~loc[w].wrote) =>
              /\ loc[w].exc # NoExc
              /\ response[w].status = 500
              /\ DOMAIN response[w].body = {"detail"}
              /\ response[w].body.detail = loc[w].exc.msg
              /\ response[w].body.detail # <<>>
        /\ (pc[w] = "done" /\ hist[w] # <<>> /\ Last(hist[w]) = "create_post") =>
              /\ ~loc[w].created
              /\ response[w].status = 500
              /\ \E m \in ApiErrors \cup {AlreadyExists} :
                    /\ loc[w].exc.cause = m
                    /\ response[w].body.detail = <<"Push failed: ">> \o m
                    /\ Contains(response[w].body.detail, m)

CreateFileFailureAnswered ==
    \E w \in Workers :
        /\ pc[w] = "done" /\ hist[w] # <<>> /\ Last(hist[w]) = "create_post"
        /\ response[w] = [status |-> 500,
                          body |-> [detail |-> <<"Push failed: ", "503 Service Unavailable">>]]

\* C3: the image stage always hands a URL to the Post Writer stage: the blob
\* URL when generation, download and upload all succeeded, the placeholder
\* otherwise; no exception leaves it
ImageStageAlwaysReturnsUrl ==
    \A w \in Workers :
        /\ (hist[w] # <<>> /\ Last(hist[w]) = "image") =>
              /\ pc[w] = "write_post"
              /\ loc[w].exc = NoExc
              /\ response[w] = NoResponse
              /\ loc[w].image # ""
        /\ loc[w].image = "uploaded" =>
              loc[w].cover_image_url = BlobUrl(blob_filename(loc[w].title))
        /\ loc[w].image \in {"generate failed", "download failed", "upload failed"} =>
              loc[w].cover_image_url = <<"https://example.com/placeholder.jpg">>

ImageFallbackContinues ==
    \E w \in Workers :
        /\ pc[w] = "write_post"
        /\ loc[w].image = "upload failed"
        /\ loc[w].cover_image_url = placeholder_url

\* C4: research_topic on a blank topic or a year that is not all digits raises
\* ValueError and issues no completion call; on valid input it fails only with
\* the RuntimeError that wraps a failed or empty completion
Blank_(s) == \A i \in 1..Len(s) : s[i] = " "
NotAllDigits(s) == s = <<>> \/ \E i \in 1..Len(s) : s[i] \notin Digits

InvalidInputRejectedWithoutCall ==
    [][/\ (\A w \in Workers :
             (/\ pc[w] = "research"
              /\ pc'[w] # "research"
              /\ Blank_(loc[w].topic) \/ NotAllDigits(loc[w].current_year))
             => /\ pc'[w] = "done"
                /\ loc'[w].exc.type = "ValueError"
                /\ loc'[w].exc.type # "RuntimeError"
                /\ hist'[w] = hist[w])
       /\ (\A w \in Workers :
             (/\ pc[w] = "research"
              /\ pc'[w] = "done"
              /\ ~(Blank_(loc[w].topic) \/ NotAllDigits(loc[w].current_year)))
             => /\ loc'[w].exc.type = "RuntimeError"
                /\ hist'[w] = Append(hist[w], "research"))]_vars

InvalidInputRejected ==
    /\ pc["w1"] = "done"
    /\ loc["w1"].exc = Exc("ValueError", <<"Current year must be a number">>)
    /\ hist["w1"] = <<>>

\* C5: the calls of a run are a prefix of the stage order, a text stage that
\* was passed left non-empty stripped text, and a run that failed on empty
\* text wrote no report, created no post and wrote no index
EmptyMessages ==
    {"Empty title response", "Empty OpenAI response", "Empty image prompt response"}

EmptyTextStopsRun ==
    \A w \in Workers :
        /\ IsPrefix(hist[w], StageOrder)
        /\ pc[w] \in {"research", "image_prompt", "image", "write_post", "write_file",
                      "publisher", "create_post", "fetch_index", "write_index"} =>
              loc[w].title # <<>> /\ ~Blank_(loc[w].title)
        /\ pc[w] \in {"image_prompt", "image", "write_post", "write_file",
                      "publisher", "create_post", "fetch_index", "write_index"} =>
              loc[w].research_output # <<>> /\ ~Blank_(loc[w].research_output)
        /\ pc[w] \in {"image", "write_post", "write_file",
                      "publisher", "create_post", "fetch_index", "write_index"} =>
              loc[w].image_prompt # <<>> /\ ~Blank_(loc[w].image_prompt)
        /\ pc[w] \in {"write_file", "publisher", "create_post", "fetch_index", "write_index"} =>
              loc[w].blog_content # <<>> /\ loc[w].blog_content # <<Blank>>
        /\ (pc[w] = "done" /\ loc[w].exc.cause # <<>> /\ Last(loc[w].exc.cause) \in EmptyMessages) =>
              /\ Last(hist[w]) \in {"title", "research", "image_prompt", "post"}
              /\ ~loc[w].created
              /\ ~loc[w].wrote
              /\ report_file.writer # loc[w].run

EmptyImagePromptStoppedRun ==
    \E w \in Workers :
        /\ pc[w] = "done"
        /\ response[w].body = [detail |-> <<"Image prompt generation failed: ",
                                            "Empty image prompt response">>]
        /\ hist[w] = <<"title", "research", "image_prompt">>

\* the slug a stripped report content asks for: the last "slug:" line of the
\* block between the opening delimiter and the next one
HasFrontmatter(c) == c # <<>> /\ c[1] = Delim
Closing(c) == CHOOSE i \in 2..Len(c) : c[i] = Delim /\ \A j \in 2..(i - 1) : c[j] # Delim
SlugLines(c) == {i \in 2..(Closing(c) - 1) : c[i].t = "kv" /\ c[i].k = "slug"}
ExpectedSlug(c) ==
    IF ~HasFrontmatter(c) THEN "default-slug"
    ELSE IF SlugLines(c) = {} THEN "default-slug"
    ELSE c[CHOOSE i \in SlugLines(c) : \A j \in SlugLines(c) : j <= i].v

\* C6: a post is committed at outstatic/content/blogs/<slug>.md, slug being the
\* frontmatter's slug or default-slug; the entry's path and __outstatic.path are
\* that path; content without a leading --- block gives the default entry
PostPathFromSlug ==
    /\ \A p \in DOMAIN posts :
          p = "outstatic/content/blogs/" \o ExpectedSlug(posts[p]) \o ".md"
    /\ \A i \in 1..Len(index_file.metadata) :
          LET e == index_file.metadata[i] IN
          /\ e.path = "outstatic/content/blogs/" \o e.slug \o ".md"
          /\ e.__outstatic.path = e.path
    /\ \A w \in Workers :
          loc[w].wrote =>
             LET e == Last(index_file.metadata) IN
             /\ e.path \in DOMAIN posts
             /\ e.slug = ExpectedSlug(posts[e.path])
             /\ ~HasFrontmatter(posts[e.path]) =>
                   /\ e.category = "Uncategorized"
                   /\ e.status = "draft"
                   /\ e.title = "Untitled"
                   /\ e.slug = "default-slug"

MyPostCommitted ==
    /\ loc["w1"].wrote
    /\ "outstatic/content/blogs/my-post.md" \in DOMAIN posts
    /\ posts["outstatic/content/blogs/my-post.md"] = <<Delim, KV("slug", "my-post"), Delim>>
    /\ Last(index_file.metadata).path = "outstatic/content/blogs/my-post.md"
    /\ Last(index_file.metadata).__outstatic.path = "outstatic/content/blogs/my-post.md"

\* C7: every write of the index keeps the list the remote file held and adds
\* one entry at its end
IndexAppendOnly ==
    [][index_file' # index_file =>
          /\ index_file'.exists
          /\ Len(index_file'.metadata) = Len(index_file.metadata) + 1
          /\ SubSeq(index_file'.metadata, 1, Len(index_file.metadata)) = index_file.metadata]_vars

\* C8: the index is updated in place exactly when the fetch of lines 203-205
\* succeeded, and created fresh exactly when it failed (the run then starts
\* from the empty index of line 202)
UpdateExactlyWhenFetched ==
    \A w \in Workers :
        loc[w].branch # "" =>
            /\ (loc[w].branch = "update") <=> loc[w].loaded
            /\ (loc[w].branch = "create") <=> ~loc[w].loaded

\* C9: the post is created before the index is fetched or written; no step
\* overwrites or removes a post; a failed creation ends the run with the
\* wrapped error and touches neither posts nor index; a failed index write
\* ends the run and leaves the new post with the old index
PostBeforeIndexNoRollback ==
    /\ [](\A w \in Workers :
            /\ IsPrefix(hist[w], StageOrder)
            /\ ("fetch_index" \in Range(hist[w]) \/ loc[w].wrote) => loc[w].created)
    /\ [][/\ \A p \in DOMAIN posts : p \in DOMAIN posts' /\ posts'[p] = posts[p]
          /\ \A w \in Workers :
               (pc[w] = "create_post" /\ pc'[w] # "create_post"
                  /\ PostPath(loc[w].slug) \in DOMAIN posts) => pc'[w] = "done"
          /\ \A w \in Workers :
               (pc[w] = "create_post" /\ pc'[w] = "done") =>
                  /\ posts' = posts
                  /\ index_file' = index_file
                  /\ loc'[w].exc.type = "RuntimeError"
                  /\ Head(loc'[w].exc.msg) = "Push failed: "
                  /\ response'[w].status = 500
                  /\ ~loc'[w].created /\ ~loc'[w].wrote
          /\ \A w \in Workers :
               (pc[w] = "write_index" /\ pc'[w] = "done" /\ ~loc'[w].wrote) =>
                  /\ index_file' = index_file
                  /\ response'[w].status = 500
                  /\ loc'[w].created
                  /\ PostPath(loc[w].slug) \in DOMAIN posts'
                  /\ posts'[PostPath(loc[w].slug)] = loc[w].content]_vars

NewPostWithStaleIndex ==
    \E w \in Workers :
        /\ pc[w] = "done"
        /\ loc[w].created /\ ~loc[w].wrote
        /\ Head(loc[w].exc.msg) = "Metadata update failed: "
        /\ index_file = IndexOf(<<OldEntry>>, TRUE)
        /\ DOMAIN posts # {}

\* C10: a run that no other run overlapped commits the content its own Post
\* Writer produced; the state in which a run has committed the report written
\* by another run is reachable when runs overlap
NonOverlappingRunCommitsOwnContent ==
    \A w \in Workers :
        (loc[w].created /\ ~loc[w].overlapped) =>
            /\ loc[w].content_writer = loc[w].run
            /\ Active(w) =>
                  /\ loc[w].content = loc[w].blog_content
                  /\ posts[PostPath(loc[w].slug)] = loc[w].blog_content

RunCommittedOtherRunsContent ==
    \E w \in Workers :
        /\ Active(w)
        /\ loc[w].created
        /\ loc[w].content_writer # loc[w].run
        /\ loc[w].content # loc[w].blog_content
        /\ posts[PostPath(loc[w].slug)] # loc[w].blog_content

====
